---- MODULE Spec2Model ----
(***************************************************************************)
(* Waveshare 2.7" e-paper driver (epd2in7): the panel driver Epd2in7 and   *)
(* the frame buffer Display2in7.                                           *)
(*                                                                         *)
(* The driver part (specification Spec) runs every driver operation as the *)
(* sequence of hardware-interface calls its body makes; each call is one   *)
(* step, may fail when it is an SPI transmission, and is appended to `log` *)
(* when it succeeds.  `log` holds the events of the current call only.     *)
(* The frame-buffer part (specification SpecFb) runs Display2in7.          *)
(***************************************************************************)
EXTENDS Integers, Sequences, FiniteSets, TLC

VARIABLES
    \* ---- Epd2in7 (mod.rs:42-48) and the call in progress
    exists,        \* an Epd2in7 value has been returned by new
    color,         \* Epd2in7.color
    color_arg,     \* the colour passed to the last set_background_color, or "never"
    call,          \* name of the operation called last
    buffer,        \* the caller's buffer lent to the call (&[u8])
    region,        \* <<x, y, width, height>> of update_partial_frame
    refresh_rate,  \* _refresh_rate of set_lut
    pc,            \* index of the next interface call in the body of the operation
    result,        \* "none" | "running" | "Ok" | "Err" | "Panic"
    log,           \* events emitted by the current call
    \* ---- the panel
    busy_pin,      \* level of the BUSY input pin: 0 = low, 1 = high
    panel,         \* "Uninitialized" | "Active" | "Sleeping" | "Indeterminate"
    \* ---- Display2in7 (graphics.rs:10-13) and the draw_iter call in progress
    fb,            \* Display2in7.buffer: [fill, diff], byte i is diff's where it has
                   \* an entry <<i, byte>> and fill elsewhere
    rotation,      \* Display2in7.rotation
    drawing,       \* draw_iter is running
    fb_result,     \* result of the last draw_iter: "none" | "Ok" | "Panic"
    pixel,         \* the last pixel the iterator yielded: <<x, y, color>> or <<>>
    fb_pre,        \* fb before that pixel was drawn
    touched,       \* buffer indices accessed for that pixel
    ndrawn         \* pixels drawn since the display was created

drv_vars == <<exists, color, color_arg, call, buffer, region, refresh_rate, pc, result, log,
              busy_pin, panel>>
fb_vars  == <<fb, rotation, drawing, fb_result, pixel, fb_pre, touched, ndrawn>>
vars     == <<exists, color, color_arg, call, buffer, region, refresh_rate, pc, result, log,
              busy_pin, panel, fb, rotation, drawing, fb_result, pixel, fb_pre, touched,
              ndrawn>>

(***************************************************************************)
(* Bounds of the model.                                                    *)
(***************************************************************************)
MaxLen    == 2      \* longest buffer a caller passes to a transfer
LutLen    == 2      \* bytes kept of each waveform table
MaxPixels == 2      \* pixels drawn on one display value

(***************************************************************************)
(* Program constants.                                                      *)
(***************************************************************************)
WIDTH  == 264
HEIGHT == 176
\* BUSY taken as active-high
IS_BUSY_HIGH == FALSE
IS_BUSY_LOW == TRUE
DEFAULT_BACKGROUND_COLOR == "White"

\* enum Command (command.rs)
PanelSetting                  == 0
PowerSetting                  == 1
PowerOff                      == 2
PowerOn                       == 4
BoosterSoftStart              == 6
DeepSleep                     == 7
DataStartTransmission1        == 16
DataStop                      == 17
DisplayRefresh                == 18
PartialDataStartTransmission1 == 20
PartialDisplayRefresh         == 22
LutForVcom                    == 32
LutWhiteToWhite               == 33
LutBlackToWhite               == 34
LutWhiteToBlack               == 35
LutBlackToBlack               == 36
PllControl                    == 48
VcomAndDataIntervalSetting    == 80
VcomDcSettingRegister         == 130
PowerOptimization             == 248
DataStartTransmission2        == 19

\* traits::Command::address: `self as u8`
address(command) == command % 256

\* The five waveform tables (constants.rs), cut to LutLen bytes each.
LUT_VCOM_DC == [i \in 1..LutLen |-> (0 + i) % 256]
LUT_WW      == [i \in 1..LutLen |-> (64 + i) % 256]
LUT_BW      == [i \in 1..LutLen |-> (128 + i) % 256]
LUT_WB      == [i \in 1..LutLen |-> (160 + i) % 256]
LUT_BB      == [i \in 1..LutLen |-> (192 + i) % 256]

(***************************************************************************)
(* u8 / u32 arithmetic, bit by bit.                                        *)
(***************************************************************************)
RECURSIVE BitAnd(_, _, _)
\* the AND of the low n bits of a and b; no bit is left once either operand is 0
BitAnd(a, b, n) ==
    IF n = 0 \/ a = 0 \/ b = 0 THEN 0
    ELSE ((a % 2) * (b % 2)) + 2 * BitAnd(a \div 2, b \div 2, n - 1)

RECURSIVE BitNot(_, _)
BitNot(a, n) ==
    IF n = 0 THEN 0
    ELSE (1 - (a % 2)) + 2 * BitNot(a \div 2, n - 1)

RECURSIVE Pow2(_)
Pow2(n) == IF n = 0 THEN 1 ELSE 2 * Pow2(n - 1)

\* `v >> k` on u32
Shr(v, k) == v \div Pow2(k)
\* `v & m` on u32
And32(v, m) == BitAnd(v, m, 32)
\* `v as u8`
AsU8(v) == v % 256
\* `!b` on u8
Not8(b) == BitNot(b, 8)

(***************************************************************************)
(* Hardware-interface calls, as the events they leave in the log.          *)
(***************************************************************************)
EvReset(duration) == <<"reset", duration>>
EvCmd(op)         == <<"cmd", op>>
EvData(b)         == <<"data", b>>
EvWait            == <<"wait", 0>>

\* DisplayInterface::reset(delay, n)
reset(n) == <<EvReset(n)>>
\* DisplayInterface::cmd(spi, command)
cmd(command) == <<EvCmd(address(command))>>
\* DisplayInterface::data(spi, data): each byte in order
send_data(data) == [i \in 1..Len(data) |-> EvData(data[i])]
\* DisplayInterface::cmd_with_data(spi, command, data)
cmd_with_data(command, data) == cmd(command) \o send_data(data)
\* DisplayInterface::wait_until_idle(IS_BUSY_LOW)
wait_until_idle == <<EvWait>>

\* send_buffer_helper sending the bytes as stored
send_buffer_helper_plain(b) == [i \in 1..Len(b) |-> EvData(b[i])]

\* Epd2in7::send_buffer_helper: one data call per byte, each byte complemented
send_buffer_helper(b) == [i \in 1..Len(b) |-> EvData(Not8(b[i]))]

(***************************************************************************)
(* The bodies of the driver's operations: the interface calls each makes,  *)
(* in program order.  A `?` after a call ends the body at the first call   *)
(* that fails (action TransportError below).                               *)
(***************************************************************************)
\* set_lut refreshing the display once the tables are loaded
set_lut_body_refresh(_refresh_rate) ==
    wait_until_idle
    \o cmd_with_data(LutForVcom, LUT_VCOM_DC)
    \o cmd_with_data(LutWhiteToWhite, LUT_WW)
    \o cmd_with_data(LutBlackToWhite, LUT_BW)
    \o cmd_with_data(LutWhiteToBlack, LUT_WB)
    \o cmd_with_data(LutBlackToBlack, LUT_BB)
    \o cmd(DisplayRefresh)

\* set_lut reading its selector: the quick profile skips the busy-wait and the VCOM table
set_lut_body_by_rate(_refresh_rate) ==
    IF _refresh_rate = "Quick"
    THEN cmd_with_data(LutWhiteToWhite, LUT_WW)
         \o cmd_with_data(LutBlackToWhite, LUT_BW)
         \o cmd_with_data(LutWhiteToBlack, LUT_WB)
         \o cmd_with_data(LutBlackToBlack, LUT_BB)
    ELSE wait_until_idle
         \o cmd_with_data(LutForVcom, LUT_VCOM_DC)
         \o cmd_with_data(LutWhiteToWhite, LUT_WW)
         \o cmd_with_data(LutBlackToWhite, LUT_BW)
         \o cmd_with_data(LutWhiteToBlack, LUT_WB)
         \o cmd_with_data(LutBlackToBlack, LUT_BB)

\* Epd2in7::set_lut; _refresh_rate is not read
set_lut_body(_refresh_rate) ==
    wait_until_idle
    \o cmd_with_data(LutForVcom, LUT_VCOM_DC)
    \o cmd_with_data(LutWhiteToWhite, LUT_WW)
    \o cmd_with_data(LutBlackToWhite, LUT_BW)
    \o cmd_with_data(LutWhiteToBlack, LUT_WB)
    \o cmd_with_data(LutBlackToBlack, LUT_BB)

\* init without the busy-wait after PowerOn
init_no_wait ==
    reset(2)
    \o cmd_with_data(PowerSetting, <<3, 0, 43, 43, 9>>)
    \o cmd_with_data(BoosterSoftStart, <<7, 7, 23>>)
    \o cmd_with_data(PowerOptimization, <<96, 165>>)
    \o cmd_with_data(PowerOptimization, <<137, 165>>)
    \o cmd_with_data(PowerOptimization, <<144, 0>>)
    \o cmd_with_data(PowerOptimization, <<147, 42>>)
    \o cmd_with_data(PowerOptimization, <<160, 165>>)
    \o cmd_with_data(PowerOptimization, <<161, 0>>)
    \o cmd_with_data(PowerOptimization, <<115, 65>>)
    \o cmd_with_data(PartialDisplayRefresh, <<0>>)
    \o cmd(PowerOn)
    \o cmd_with_data(PanelSetting, <<175>>)
    \o cmd_with_data(PllControl, <<58>>)
    \o cmd_with_data(VcomDcSettingRegister, <<18>>)
    \o wait_until_idle
    \o cmd_with_data(LutForVcom, LUT_VCOM_DC)
    \o cmd_with_data(LutWhiteToWhite, LUT_WW)
    \o cmd_with_data(LutBlackToWhite, LUT_BW)
    \o cmd_with_data(LutWhiteToBlack, LUT_WB)
    \o cmd_with_data(LutBlackToBlack, LUT_BB)

\* InternalWiAdditions::init
init ==
    reset(2)
    \o cmd_with_data(PowerSetting, <<3, 0, 43, 43, 9>>)        \* 03 00 2B 2B 09
    \o cmd_with_data(BoosterSoftStart, <<7, 7, 23>>)           \* 07 07 17
    \o cmd_with_data(PowerOptimization, <<96, 165>>)           \* 60 A5
    \o cmd_with_data(PowerOptimization, <<137, 165>>)          \* 89 A5
    \o cmd_with_data(PowerOptimization, <<144, 0>>)            \* 90 00
    \o cmd_with_data(PowerOptimization, <<147, 42>>)           \* 93 2A
    \o cmd_with_data(PowerOptimization, <<160, 165>>)          \* A0 A5
    \o cmd_with_data(PowerOptimization, <<161, 0>>)            \* A1 00
    \o cmd_with_data(PowerOptimization, <<115, 65>>)           \* 73 41
    \o cmd_with_data(PartialDisplayRefresh, <<0>>)
    \o cmd(PowerOn)
    \o wait_until_idle
    \o cmd_with_data(PanelSetting, <<175>>)                    \* AF
    \o cmd_with_data(PllControl, <<58>>)                       \* 3A
    \o cmd_with_data(VcomDcSettingRegister, <<18>>)            \* 12
    \o set_lut_body("None")

\* sleep waiting for the panel after PowerOff
sleep_body_wait ==
    cmd_with_data(VcomAndDataIntervalSetting, <<247>>)
    \o cmd(PowerOff)
    \o wait_until_idle
    \o cmd_with_data(DeepSleep, <<165>>)

\* wake_up resuming without the hardware reset
wake_up_body_no_reset == Tail(init)

\* Epd2in7::wake_up: self.init(spi, delay)
wake_up_body == init

\* Epd2in7::sleep
sleep_body ==
    cmd_with_data(VcomAndDataIntervalSetting, <<247>>)         \* F7
    \o cmd(PowerOff)
    \o cmd_with_data(DeepSleep, <<165>>)                       \* A5

\* update_frame with the transfer to channel 1 enabled as well
update_frame_body_both_channels(b) ==
    cmd(DataStartTransmission1)
    \o send_buffer_helper(b)
    \o cmd(DataStartTransmission2)
    \o send_buffer_helper(b)
    \o cmd(DataStop)

\* Epd2in7::update_frame
update_frame_body(b) ==
    cmd(DataStartTransmission2)
    \o send_buffer_helper(b)
    \o cmd(DataStop)

\* update_partial_frame masking x with 0xff
update_partial_frame_body_xff(b, x, y, width, height) ==
    cmd(PartialDataStartTransmission1)
    \o send_data(<<AsU8(Shr(x, 8))>>)
    \o send_data(<<AsU8(And32(x, 255))>>)
    \o send_data(<<AsU8(Shr(y, 8))>>)
    \o send_data(<<AsU8(And32(y, 255))>>)
    \o send_data(<<AsU8(Shr(width, 8))>>)
    \o send_data(<<AsU8(And32(width, 248))>>)
    \o send_data(<<AsU8(Shr(height, 8))>>)
    \o send_data(<<AsU8(And32(height, 255))>>)
    \o wait_until_idle
    \o send_buffer_helper(b)
    \o cmd(DataStop)

\* update_partial_frame busy-waiting after the region data instead of before it
update_partial_frame_body_late_wait(b, x, y, width, height) ==
    cmd(PartialDataStartTransmission1)
    \o send_data(<<AsU8(Shr(x, 8))>>)
    \o send_data(<<AsU8(And32(x, 248))>>)
    \o send_data(<<AsU8(Shr(y, 8))>>)
    \o send_data(<<AsU8(And32(y, 255))>>)
    \o send_data(<<AsU8(Shr(width, 8))>>)
    \o send_data(<<AsU8(And32(width, 248))>>)
    \o send_data(<<AsU8(Shr(height, 8))>>)
    \o send_data(<<AsU8(And32(height, 255))>>)
    \o send_buffer_helper(b)
    \o wait_until_idle
    \o cmd(DataStop)

\* Epd2in7::update_partial_frame
update_partial_frame_body(b, x, y, width, height) ==
    cmd(PartialDataStartTransmission1)
    \o send_data(<<AsU8(Shr(x, 8))>>)
    \o send_data(<<AsU8(And32(x, 248))>>)
    \o send_data(<<AsU8(Shr(y, 8))>>)
    \o send_data(<<AsU8(And32(y, 255))>>)
    \o send_data(<<AsU8(Shr(width, 8))>>)
    \o send_data(<<AsU8(And32(width, 248))>>)
    \o send_data(<<AsU8(Shr(height, 8))>>)
    \o send_data(<<AsU8(And32(height, 255))>>)
    \o wait_until_idle
    \o send_buffer_helper(b)
    \o cmd(DataStop)

\* display_frame refusing to refresh a panel the driver remembers as Sleeping
display_frame_body_if_awake ==
    IF panel = "Sleeping" THEN <<>> ELSE cmd(DisplayRefresh) \o wait_until_idle

\* Epd2in7::display_frame
display_frame_body ==
    cmd(DisplayRefresh)
    \o wait_until_idle

\* update_and_display_frame refreshing before it transfers
update_and_display_frame_body_display_first(b) ==
    display_frame_body
    \o update_frame_body(b)

\* Epd2in7::update_and_display_frame
update_and_display_frame_body(b) ==
    update_frame_body(b)
    \o display_frame_body

(***************************************************************************)
(* Inputs.                                                                 *)
(***************************************************************************)
ByteVals == {0, 165}
Buffers  == UNION {[1..n -> ByteVals] : n \in 0..MaxLen}
\* <<x, y, width, height>>, u32 each
Regions  == { <<8, 0, 16, 4>>,
              <<13, 300, 263, 511>>,
              <<255, 256, 65535, 65534>>,
              <<65544, 0, 16, 4>>,
              <<8, 70000, 131075, 4>> }
Colors   == {"White", "Black"}
RefreshRates == {"None", "Full", "Quick"}
NoRegion == <<0, 0, 0, 0>>

(***************************************************************************)
(* The panel.                                                              *)
(***************************************************************************)
\* opcodes after which the panel holds BUSY asserted until it has finished
BusyCommands == {PowerOn, PowerOff, DisplayRefresh}

\* DisplayInterface::is_busy(is_busy_low)
interface_is_busy(is_busy_low) ==
    (is_busy_low /\ busy_pin = 0) \/ (~is_busy_low /\ busy_pin = 1)

\* Epd2in7::is_busy
is_busy == interface_is_busy(IS_BUSY_LOW)

\* the panel is performing an internal operation (BUSY is active-low)
PanelBusy == busy_pin = 0

\* Uninitialized -> Active <-> Sleeping, by the operation that has returned
panel_after(c, r, p) ==
    IF c \in {"new", "wake_up"} THEN (IF r = "Ok" THEN "Active" ELSE "Indeterminate")
    ELSE IF c = "sleep" THEN (IF r = "Ok" THEN "Sleeping" ELSE "Indeterminate")
    ELSE p

\* new returning the driver whatever init returned
exists_after_always(c, r, e) == IF c = "new" THEN TRUE ELSE e

\* Epd2in7::new: `epd.init(spi, delay)?; Ok(epd)`
exists_after(c, r, e) == IF c = "new" THEN r = "Ok" ELSE e

(***************************************************************************)
(* Display2in7: the frame buffer.                                          *)
(***************************************************************************)
\* [u8; WIDTH as usize * HEIGHT as usize / 8]
BufLen == (WIDTH * HEIGHT) \div 8

Rotations == {"Rotate0", "Rotate90", "Rotate180", "Rotate270"}

\* Color::get_byte_value: the bit pattern of a colour, all-1 bits for white
get_byte_value(c) == IF c = "White" THEN 255 ELSE 0

\* the buffer holding byte v everywhere
Filled(v) == [fill |-> v, diff |-> {}]
\* buffer[i]
FbAt(f, i) ==
    IF \E e \in f.diff : e[1] = i
    THEN (CHOOSE e \in f.diff : e[1] = i)[2]
    ELSE f.fill
\* buffer[i] = v
FbSet(f, i, v) ==
    [f EXCEPT !.diff = {e \in @ : e[1] # i} \cup (IF v = f.fill THEN {} ELSE {<<i, v>>})]

\* bit k (0 = least significant) of byte b, and b with that bit set or cleared
BitOf(b, k)    == (b \div Pow2(k)) % 2
SetBit(b, k)   == IF BitOf(b, k) = 1 THEN b ELSE b + Pow2(k)
ClearBit(b, k) == IF BitOf(b, k) = 1 THEN b - Pow2(k) ELSE b

\* Default for Display2in7
default == Filled(get_byte_value(DEFAULT_BACKGROUND_COLOR))

\* whether pixel (x, y) lies outside the addressable area under rotation rot
outside_display(x, y, width, height, rot) ==
    IF x < 0 \/ y < 0 THEN TRUE
    ELSE IF rot \in {"Rotate0", "Rotate180"} THEN x >= width \/ y >= height
    ELSE y >= width \/ x >= height

\* logical (x, y) under rotation rot to physical (x', y')
find_rotation(x, y, width, height, rot) ==
    CASE rot = "Rotate0"   -> <<x, y>>
      [] rot = "Rotate90"  -> <<width - 1 - y, x>>
      [] rot = "Rotate180" -> <<width - 1 - x, height - 1 - y>>
      [] rot = "Rotate270" -> <<y, height - 1 - x>>

\* <<byte index, bit index>> of pixel (x, y): y' * (width / 8) + x' / 8, 7 - (x' mod 8)
find_position(x, y, width, height, rot) ==
    LET p == find_rotation(x, y, width, height, rot)
    IN  <<p[2] * (width \div 8) + (p[1] \div 8), 7 - (p[1] % 8)>>

\* Display::draw_helper on buffer f of length BufLen:
\* [fb: the buffer after, touched: the indices accessed, ok: no index was out of range]
draw_helper(f, rot, width, height, px) ==
    IF outside_display(px[1], px[2], width, height, rot)
    THEN [fb |-> f, touched |-> {}, ok |-> TRUE]
    ELSE LET pos == find_position(px[1], px[2], width, height, rot)
             i   == pos[1]
         IN  IF i < 0 \/ i >= BufLen
             THEN [fb |-> f, touched |-> {i}, ok |-> FALSE]
             ELSE [fb |-> FbSet(f, i, IF px[3] = "Black"
                                      THEN SetBit(FbAt(f, i), pos[2])
                                      ELSE ClearBit(FbAt(f, i), pos[2])),
                   touched |-> {i}, ok |-> TRUE]

\* draw_iter passing the panel's dimensions in the wrong order
draw_iter_pixel_swapped(f, rot, px) == draw_helper(f, rot, HEIGHT, WIDTH, px)

\* DrawTarget::draw_iter, one turn of its loop: self.draw_helper(WIDTH, HEIGHT, pixel)?
draw_iter_pixel(f, rot, px) == draw_helper(f, rot, WIDTH, HEIGHT, px)

\* pixels the iterator may yield: <<x, y, colour>>
Points == { <<0, 0>>, <<7, 0>>, <<8, 0>>, <<9, 1>>, <<263, 175>>, <<175, 263>>,
            <<0 - 1, 0>>, <<0, 0 - 1>>, <<264, 0>>, <<0, 176>>, <<176, 0>>, <<0, 264>>,
            <<264, 176>> }
Pixels == {<<pt[1], pt[2], c>> : pt \in Points, c \in {"Black", "White"}}

(***************************************************************************)
(* Initial state.                                                          *)
(***************************************************************************)
Init ==
    /\ exists = FALSE
    /\ color = DEFAULT_BACKGROUND_COLOR
    /\ color_arg = "never"
    /\ call = "none"
    /\ buffer = <<>>
    /\ region = NoRegion
    /\ refresh_rate = "None"
    /\ pc = 1
    /\ result = "none"
    /\ log = <<>>
    /\ busy_pin = 1
    /\ panel = "Uninitialized"
    /\ fb = default
    /\ rotation = "Rotate0"
    /\ drawing = FALSE
    /\ fb_result = "none"
    /\ pixel = <<>>
    /\ fb_pre = default
    /\ touched = {}
    /\ ndrawn = 0

(***************************************************************************)
(* Calls of the driver's operations.                                       *)
(***************************************************************************)
Callable == result \notin {"running", "Panic"}

Begin(c, b, r, rate) ==
    /\ Callable
    /\ call' = c
    /\ buffer' = b
    /\ region' = r
    /\ refresh_rate' = rate
    /\ pc' = 1
    /\ result' = "running"
    /\ log' = <<>>
    /\ UNCHANGED <<exists, color_arg, busy_pin, panel>>
    /\ UNCHANGED fb_vars

new ==
    /\ ~exists
    /\ color' = DEFAULT_BACKGROUND_COLOR
    /\ Begin("new", <<>>, NoRegion, "None")

\* wake_up restoring the default background colour
wake_up_reset_color ==
    /\ exists
    /\ Begin("wake_up", <<>>, NoRegion, "None")
    /\ color' = DEFAULT_BACKGROUND_COLOR

wake_up ==
    /\ exists
    /\ Begin("wake_up", <<>>, NoRegion, "None")
    /\ UNCHANGED color

sleep ==
    /\ exists
    /\ Begin("sleep", <<>>, NoRegion, "None")
    /\ UNCHANGED color

update_frame ==
    /\ exists
    /\ \E b \in Buffers : Begin("update_frame", b, NoRegion, "None")
    /\ UNCHANGED color

update_partial_frame ==
    /\ exists
    /\ \E b \in Buffers, r \in Regions :
          Begin("update_partial_frame", b, r, "None")
    /\ UNCHANGED color

display_frame ==
    /\ exists
    /\ Begin("display_frame", <<>>, NoRegion, "None")
    /\ UNCHANGED color

update_and_display_frame ==
    /\ exists
    /\ \E b \in Buffers :
          Begin("update_and_display_frame", b, NoRegion, "None")
    /\ UNCHANGED color

set_lut ==
    /\ exists
    /\ \E rate \in RefreshRates : Begin("set_lut", <<>>, NoRegion, rate)
    /\ UNCHANGED color

\* clear_frame implemented as an operation that returns
clear_frame_returns ==
    /\ exists
    /\ Begin("clear_frame", <<>>, NoRegion, "None")
    /\ UNCHANGED color

\* Epd2in7::clear_frame: todo!()
clear_frame ==
    /\ exists
    /\ Callable
    /\ call' = "clear_frame"
    /\ buffer' = <<>>
    /\ region' = NoRegion
    /\ refresh_rate' = "None"
    /\ pc' = 1
    /\ result' = "Panic"
    /\ log' = <<>>
    /\ UNCHANGED <<exists, color, color_arg, busy_pin, panel>>
    /\ UNCHANGED fb_vars

\* Epd2in7::set_background_color
set_background_color ==
    /\ exists
    /\ Callable
    /\ \E c \in Colors : color' = c /\ color_arg' = c
    /\ call' = "set_background_color"
    /\ buffer' = <<>>
    /\ region' = NoRegion
    /\ refresh_rate' = "None"
    /\ pc' = 1
    /\ result' = "Ok"
    /\ log' = <<>>
    /\ UNCHANGED <<exists, busy_pin, panel>>
    /\ UNCHANGED fb_vars

\* Epd2in7::background_color
background_color == color

(***************************************************************************)
(* One interface call of the running operation.                            *)
(***************************************************************************)
\* the interface calls the running operation's body makes, in order
prog ==
    CASE call = "new"                      -> init
      [] call = "wake_up"                  -> wake_up_body
      [] call = "sleep"                    -> sleep_body
      [] call = "update_frame"             -> update_frame_body(buffer)
      [] call = "update_partial_frame"     ->
            update_partial_frame_body(buffer, region[1], region[2], region[3], region[4])
      [] call = "display_frame"            -> display_frame_body
      [] call = "update_and_display_frame" -> update_and_display_frame_body(buffer)
      [] call = "set_lut"                  -> set_lut_body(refresh_rate)
      [] OTHER                             -> <<>>

Running == result = "running" /\ pc <= Len(prog)
Emit ==
    /\ log' = Append(log, prog[pc])
    /\ pc' = pc + 1
    /\ UNCHANGED <<exists, color, color_arg, call, buffer, region, refresh_rate, result,
                   panel>>
    /\ UNCHANGED fb_vars

\* DisplayInterface::reset
InterfaceReset ==
    /\ Running
    /\ prog[pc][1] = "reset"
    /\ Emit
    /\ UNCHANGED busy_pin

\* DisplayInterface::cmd, the transmission succeeding
InterfaceCmd ==
    /\ Running
    /\ prog[pc][1] = "cmd"
    /\ Emit
    /\ busy_pin' = IF prog[pc][2] \in BusyCommands THEN 0 ELSE busy_pin

\* DisplayInterface::data, the transmission of one byte succeeding
InterfaceData ==
    /\ Running
    /\ prog[pc][1] = "data"
    /\ Emit
    /\ UNCHANGED busy_pin

\* DisplayInterface::wait_until_idle: returns once BUSY is seen idle
InterfaceWaitUntilIdle ==
    /\ Running
    /\ prog[pc][1] = "wait"
    /\ ~is_busy
    /\ Emit
    /\ UNCHANGED busy_pin

\* an SPI transmission fails: `?` returns the error, nothing more is sent
TransportError ==
    /\ Running
    /\ prog[pc][1] \in {"cmd", "data"}
    /\ result' = "Err"
    /\ exists' = exists_after(call, "Err", exists)
    /\ panel' = panel_after(call, "Err", panel)
    /\ UNCHANGED <<color, color_arg, call, buffer, region, refresh_rate, pc, log, busy_pin>>
    /\ UNCHANGED fb_vars

\* the operation returns with the caller's buffer complemented in place
Return_inverted ==
    /\ result = "running"
    /\ pc > Len(prog)
    /\ result' = "Ok"
    /\ exists' = exists_after(call, "Ok", exists)
    /\ panel' = panel_after(call, "Ok", panel)
    /\ buffer' = [i \in 1..Len(buffer) |-> Not8(buffer[i])]
    /\ UNCHANGED <<color, color_arg, call, region, refresh_rate, pc, log, busy_pin>>
    /\ UNCHANGED fb_vars

\* the body has run to its end: Ok(..)
Return ==
    /\ result = "running"
    /\ pc > Len(prog)
    /\ result' = "Ok"
    /\ exists' = exists_after(call, "Ok", exists)
    /\ panel' = panel_after(call, "Ok", panel)
    /\ UNCHANGED <<color, color_arg, call, buffer, region, refresh_rate, pc, log, busy_pin>>
    /\ UNCHANGED fb_vars

\* the panel finishes its internal operation and releases BUSY
PanelDone ==
    /\ PanelBusy
    /\ busy_pin' = 1
    /\ UNCHANGED <<exists, color, color_arg, call, buffer, region, refresh_rate, pc, result, log,
                   panel>>
    /\ UNCHANGED fb_vars

Next ==
    \/ new
    \/ wake_up
    \/ sleep
    \/ update_frame
    \/ update_partial_frame
    \/ display_frame
    \/ update_and_display_frame
    \/ set_lut
    \/ clear_frame
    \/ set_background_color
    \/ InterfaceReset
    \/ InterfaceCmd
    \/ InterfaceData
    \/ InterfaceWaitUntilIdle
    \/ TransportError
    \/ Return
    \/ PanelDone

Spec == Init /\ [][Next]_vars

\* one interface call of the running operation returns, or the operation does
Step ==
    \/ InterfaceReset
    \/ InterfaceCmd
    \/ InterfaceData
    \/ InterfaceWaitUntilIdle
    \/ TransportError
    \/ Return

\* Every interface call returns, and the panel releases BUSY after it has asserted it.
SpecLive == Init /\ [][Next]_vars /\ WF_vars(Step) /\ WF_vars(PanelDone)

(***************************************************************************)
(* Operations of Display2in7.                                              *)
(***************************************************************************)
\* Display2in7::default(): a new display value
display_default ==
    /\ ~drawing
    /\ fb_result # "Panic"
    /\ fb' = default
    /\ rotation' = "Rotate0"
    /\ fb_result' = "none"
    /\ pixel' = <<>>
    /\ fb_pre' = default
    /\ touched' = {}
    /\ ndrawn' = 0
    /\ UNCHANGED drawing
    /\ UNCHANGED drv_vars

\* Display::set_rotation
set_rotation ==
    /\ ~drawing
    /\ fb_result # "Panic"
    /\ \E r \in Rotations : rotation' = r
    /\ pixel' = <<>>
    /\ fb_pre' = fb
    /\ touched' = {}
    /\ UNCHANGED <<fb, drawing, fb_result, ndrawn>>
    /\ UNCHANGED drv_vars

\* Display::get_mut_buffer, the caller filling the borrowed buffer with one byte
get_mut_buffer ==
    /\ ~drawing
    /\ fb_result # "Panic"
    /\ \E v \in {0, 255} : /\ fb' = Filled(v)
                           /\ fb_pre' = Filled(v)
    /\ pixel' = <<>>
    /\ touched' = {}
    /\ UNCHANGED <<rotation, drawing, fb_result, ndrawn>>
    /\ UNCHANGED drv_vars

\* DrawTarget::draw_iter is called
draw_iter ==
    /\ ~drawing
    /\ fb_result # "Panic"
    /\ drawing' = TRUE
    /\ fb_result' = "none"
    /\ pixel' = <<>>
    /\ fb_pre' = fb
    /\ touched' = {}
    /\ UNCHANGED <<fb, rotation, ndrawn>>
    /\ UNCHANGED drv_vars

\* the iterator yields a pixel and the loop body draws it
draw_iter_next ==
    /\ drawing
    /\ ndrawn < MaxPixels
    /\ \E px \in Pixels :
          LET d == draw_iter_pixel(fb, rotation, px)
          IN  /\ pixel' = px
              /\ fb_pre' = fb
              /\ fb' = d.fb
              /\ touched' = d.touched
              /\ drawing' = d.ok
              /\ fb_result' = IF d.ok THEN "none" ELSE "Panic"
    /\ ndrawn' = ndrawn + 1
    /\ UNCHANGED rotation
    /\ UNCHANGED drv_vars

\* the iterator is exhausted: Ok(())
draw_iter_return ==
    /\ drawing
    /\ drawing' = FALSE
    /\ fb_result' = "Ok"
    /\ UNCHANGED <<fb, rotation, pixel, fb_pre, touched, ndrawn>>
    /\ UNCHANGED drv_vars

NextFb ==
    \/ display_default
    \/ set_rotation
    \/ get_mut_buffer
    \/ draw_iter
    \/ draw_iter_next
    \/ draw_iter_return

SpecFb == Init /\ [][NextFb]_vars

(***************************************************************************)
(* Claims about the driver (specification Spec).                           *)
(***************************************************************************)
DataBytes(bytes) == [i \in 1..Len(bytes) |-> <<"data", bytes[i]>>]
Complemented(b)  == [i \in 1..Len(b) |-> <<"data", 255 - b[i]>>]
IsPrefix(s, t)   == Len(s) <= Len(t) /\ \A i \in 1..Len(s) : s[i] = t[i]

\* the initialize stream of C1, opcodes and payloads as listed there
InitStream ==
    <<<<"reset", 2>>>>
    \o <<<<"cmd", 1>>>>   \o DataBytes(<<3, 0, 43, 43, 9>>)
    \o <<<<"cmd", 6>>>>   \o DataBytes(<<7, 7, 23>>)
    \o <<<<"cmd", 248>>>> \o DataBytes(<<96, 165>>)
    \o <<<<"cmd", 248>>>> \o DataBytes(<<137, 165>>)
    \o <<<<"cmd", 248>>>> \o DataBytes(<<144, 0>>)
    \o <<<<"cmd", 248>>>> \o DataBytes(<<147, 42>>)
    \o <<<<"cmd", 248>>>> \o DataBytes(<<160, 165>>)
    \o <<<<"cmd", 248>>>> \o DataBytes(<<161, 0>>)
    \o <<<<"cmd", 248>>>> \o DataBytes(<<115, 65>>)
    \o <<<<"cmd", 22>>>>  \o DataBytes(<<0>>)
    \o <<<<"cmd", 4>>>>
    \o <<<<"wait", 0>>>>
    \o <<<<"cmd", 0>>>>   \o DataBytes(<<175>>)
    \o <<<<"cmd", 48>>>>  \o DataBytes(<<58>>)
    \o <<<<"cmd", 130>>>> \o DataBytes(<<18>>)
    \o <<<<"wait", 0>>>>
    \o <<<<"cmd", 32>>>>  \o DataBytes(LUT_VCOM_DC)
    \o <<<<"cmd", 33>>>>  \o DataBytes(LUT_WW)
    \o <<<<"cmd", 34>>>>  \o DataBytes(LUT_BW)
    \o <<<<"cmd", 35>>>>  \o DataBytes(LUT_WB)
    \o <<<<"cmd", 36>>>>  \o DataBytes(LUT_BB)

\* C1: a successful init, as run by new, has emitted exactly the fixed stream: reset(2),
\* PowerSetting, BoosterSoftStart, seven PowerOptimization writes, PartialDisplayRefresh,
\* PowerOn, busy-wait, PanelSetting, PllControl, VcomDcSettingRegister, busy-wait, five
\* LUT loads, each command followed by its payload and nothing else in between.
C1_InitStream ==
    (call = "new" /\ result = "Ok") => log = InitStream

C1_Witness ==
    call = "new" /\ result = "Ok" /\ exists /\ Len(log) = Len(InitStream)

\* C2: a successful update_frame(b) has emitted exactly DataStartTransmission2, one data
\* byte 255 - b[i] for each byte of b in order, DataStop; no update_frame ever emits
\* DataStartTransmission1 or busy-waits.
C2_UpdateFrame ==
    call = "update_frame" =>
        /\ result = "Ok" => log = <<<<"cmd", 19>>>> \o Complemented(buffer) \o <<<<"cmd", 17>>>>
        /\ \A i \in 1..Len(log) : log[i] # <<"cmd", 16>> /\ log[i][1] # "wait"

C2_Witness ==
    /\ call = "update_frame"
    /\ result = "Ok"
    /\ Len(buffer) >= 2
    /\ buffer[1] # buffer[2]
    /\ Len(log) = Len(buffer) + 2

\* the eight address bytes of C3 for a region of values below 65536
AddressBytes(x, y, width, height) ==
    << x \div 256, (x % 256) - (x % 8), y \div 256, y % 256,
       width \div 256, (width % 256) - (width % 8), height \div 256, height % 256 >>

\* C3: for a region whose four values are below 65536, the eight data bytes that follow
\* PartialDataStartTransmission1 are x div 256, x mod 256 less its low 3 bits, y div 256,
\* y mod 256, width div 256, width mod 256 less its low 3 bits, height div 256,
\* height mod 256; the region (8, 0, 16, 4) gives 00 08 00 00 00 10 00 04.
C3_AddressBytes ==
    (call = "update_partial_frame" /\ Len(log) >= 9 /\ \A k \in 1..4 : region[k] < 65536) =>
        /\ log[1] = <<"cmd", 20>>
        /\ SubSeq(log, 2, 9)
             = DataBytes(AddressBytes(region[1], region[2], region[3], region[4]))
        /\ region = <<8, 0, 16, 4>> =>
             SubSeq(log, 2, 9) = DataBytes(<<0, 8, 0, 0, 0, 16, 0, 4>>)

C3_Witness ==
    /\ call = "update_partial_frame"
    /\ region = <<13, 300, 263, 511>>
    /\ Len(log) >= 9
    /\ log[3] = <<"data", 8>>
    /\ log[6] = <<"data", 1>>

\* C4: the events of update_partial_frame are, in order and with nothing else between
\* them: PartialDataStartTransmission1, eight data bytes, one busy-wait, the complement of
\* every byte of the region buffer, DataStop; a successful call has emitted all of them.
C4_PartialOrder ==
    call = "update_partial_frame" =>
        /\ Len(log) <= Len(buffer) + 11
        /\ result = "Ok" => Len(log) = Len(buffer) + 11
        /\ \A i \in 1..Len(log) :
              IF i = 1 THEN log[i] = <<"cmd", 20>>
              ELSE IF i <= 9 THEN log[i][1] = "data"
              ELSE IF i = 10 THEN log[i] = <<"wait", 0>>
              ELSE IF i <= Len(buffer) + 10 THEN log[i] = <<"data", 255 - buffer[i - 10]>>
              ELSE log[i] = <<"cmd", 17>>

C4_Witness ==
    /\ call = "update_partial_frame"
    /\ result = "Ok"
    /\ Len(buffer) >= 2
    /\ log[10] = <<"wait", 0>>
    /\ log[11] = <<"data", 90>>

\* C5: a successful sleep has emitted exactly VcomAndDataIntervalSetting with F7,
\* PowerOff with no data, DeepSleep with A5, and no sleep ever busy-waits.
C5_Sleep ==
    call = "sleep" =>
        /\ result = "Ok" =>
              log = << <<"cmd", 80>>, <<"data", 247>>, <<"cmd", 2>>,
                       <<"cmd", 7>>, <<"data", 165>> >>
        /\ \A i \in 1..Len(log) : log[i][1] # "wait"

C5_Witness ==
    call = "sleep" /\ result = "Ok" /\ Len(log) = 5 /\ panel = "Sleeping"

\* C6: display_frame emits DisplayRefresh and then busy-waits, and nothing else; when it
\* has returned success the busy-wait came after the command and BUSY is at its idle level.
C6_DisplayFrame ==
    call = "display_frame" =>
        /\ IsPrefix(log, << <<"cmd", 18>>, <<"wait", 0>> >>)
        /\ result = "Ok" => (log = << <<"cmd", 18>>, <<"wait", 0>> >> /\ busy_pin = 1)

C6_Witness ==
    call = "display_frame" /\ result = "Ok" /\ Len(log) = 2 /\ busy_pin = 1

\* C7: when init fails (in new or wake_up) the error is returned, the stream emitted is the
\* fixed stream up to the failing transmission, nothing is emitted afterwards by that call,
\* and a failed new yields no driver.
C7_InitFailure ==
    /\ [](  (call \in {"new", "wake_up"} /\ result = "Err") =>
              /\ \E n \in 0..(Len(InitStream) - 1) :
                    /\ log = SubSeq(InitStream, 1, n)
                    /\ InitStream[n + 1][1] \in {"cmd", "data"}
              /\ call = "new" => ~exists )
    /\ [][ (call \in {"new", "wake_up"} /\ result = "Err" /\ result' = "Err") =>
              (log' = log /\ call' = call) ]_vars

C7_Witness ==
    call = "new" /\ result = "Err" /\ ~exists /\ Len(log) = 30

FrameCommands == {19, 20, 18}
FrameOps == {"update_frame", "update_partial_frame", "display_frame",
             "update_and_display_frame"}
FrameCommandSent == \E i \in 1..Len(log) : log[i][1] = "cmd" /\ log[i][2] \in FrameCommands

\* C8 as stated: no frame command reaches the panel while it is Sleeping.
C8_Original ==
    panel = "Sleeping" => ~FrameCommandSent

\* C8 amended: the driver keeps no panel state and does not refuse a frame operation
\* called while the panel is Sleeping; a frame command reaches a Sleeping panel only from
\* a frame operation the caller invokes then, never from sleep, wake_up, set_lut or the
\* colour accessors.
C8_Amended ==
    (panel = "Sleeping" /\ FrameCommandSent) => call \in FrameOps

C8_Witness ==
    panel = "Sleeping" /\ FrameCommandSent /\ call = "update_frame" /\ result = "Ok"

(***************************************************************************)
(* Claims about the frame buffer (specification SpecFb).                   *)
(***************************************************************************)
\* (x, y) lies in the addressable area under rotation rot
Addressable(x, y, rot) ==
    /\ x >= 0
    /\ y >= 0
    /\ IF rot \in {"Rotate0", "Rotate180"} THEN x < 264 /\ y < 176 ELSE x < 176 /\ y < 264

\* the indices at which buffers f and g can differ
StoredIndices(f, g) == {e[1] : e \in f.diff \cup g.diff}

\* C9: after a pixel write whose coordinates lie outside the addressable area under the
\* current orientation, every byte of the buffer is what it was before the write and the
\* write has not failed; no write ever accesses an index outside the buffer.
C9_OutsideNoOp ==
    /\ touched \subseteq 0..(BufLen - 1)
    /\ (pixel # <<>> /\ ~Addressable(pixel[1], pixel[2], rotation)) =>
          /\ fb = fb_pre
          /\ \A i \in StoredIndices(fb, fb_pre) : FbAt(fb, i) = FbAt(fb_pre, i)
          /\ touched = {}
          /\ fb_result # "Panic"

C9_Witness ==
    /\ pixel = <<176, 0, "Black">>
    /\ rotation = "Rotate90"
    /\ fb = Filled(0)
    /\ fb_result = "Ok"

\* C10: in the default orientation, after an in-range pixel (x, y) is written black, bit
\* 7 - (x mod 8) of byte y * (WIDTH / 8) + x div 8 is set and every other bit of the
\* buffer is what it was before; (0,0) is bit 7 of byte 0, (7,0) bit 0 of byte 0, (8,0)
\* bit 7 of byte 1.
C10_BlackPixelBit ==
    (/\ pixel # <<>>
     /\ rotation = "Rotate0"
     /\ pixel[3] = "Black"
     /\ Addressable(pixel[1], pixel[2], "Rotate0")) =>
        LET x == pixel[1]
            y == pixel[2]
            i == y * (WIDTH \div 8) + (x \div 8)
            k == 7 - (x % 8)
        IN  /\ fb_result # "Panic"
            /\ touched = {i}
            /\ BitOf(FbAt(fb, i), k) = 1
            /\ fb.fill = fb_pre.fill
            /\ \A j \in StoredIndices(fb, fb_pre) \cup {i} : \A b \in 0..7 :
                  (j # i \/ b # k) => BitOf(FbAt(fb, j), b) = BitOf(FbAt(fb_pre, j), b)
            /\ (x = 0 /\ y = 0) => (i = 0 /\ k = 7 /\ FbAt(fb, 0) >= 128)
            /\ (x = 7 /\ y = 0) => (i = 0 /\ k = 0 /\ FbAt(fb, 0) % 2 = 1)
            /\ (x = 8 /\ y = 0) => (i = 1 /\ k = 7 /\ FbAt(fb, 1) >= 128)

C10_Witness ==
    /\ pixel = <<8, 0, "Black">>
    /\ rotation = "Rotate0"
    /\ FbAt(fb_pre, 1) = 0
    /\ FbAt(fb, 1) = 128
    /\ FbAt(fb, 0) = 0

(***************************************************************************)
(* Further claims about the driver (specification Spec).                   *)
(***************************************************************************)
\* the number of data events in a stream
RECURSIVE DataCount(_)
DataCount(s) ==
    IF s = <<>> THEN 0
    ELSE (IF Head(s)[1] = "data" THEN 1 ELSE 0) + DataCount(Tail(s))

\* C11 as stated: every successful update_frame has transmitted WIDTH*HEIGHT/8 = 5808
\* data bytes, whatever the buffer.
C11_Original ==
    (call = "update_frame" /\ result = "Ok") => DataCount(log) = 5808

\* C11 amended: a successful update_frame has transmitted exactly as many data bytes as
\* the buffer it was passed holds, all between DataStartTransmission2 and DataStop; no
\* update_frame transmits more data bytes than that.
C11_Amended ==
    call = "update_frame" =>
        /\ DataCount(log) <= Len(buffer)
        /\ result = "Ok" =>
              /\ DataCount(log) = Len(buffer)
              /\ Head(log) = <<"cmd", 19>>
              /\ log[Len(log)] = <<"cmd", 17>>
              /\ Len(log) = Len(buffer) + 2

C11_Witness ==
    call = "update_frame" /\ result = "Ok" /\ Len(buffer) = 1 /\ DataCount(log) = 1

\* C12: the stream of update_and_display_frame(b) is the stream of update_frame(b)
\* followed by the stream of display_frame; DisplayRefresh is issued only after the whole
\* update stream, so a failing update part returns the error without it.
C12_UpdateAndDisplay ==
    call = "update_and_display_frame" =>
        LET update  == <<<<"cmd", 19>>>> \o Complemented(buffer) \o <<<<"cmd", 17>>>>
            display == << <<"cmd", 18>>, <<"wait", 0>> >>
        IN  /\ IsPrefix(log, update \o display)
            /\ result = "Ok" => log = update \o display
            /\ (result = "Err" /\ Len(log) < Len(update)) =>
                  \A i \in 1..Len(log) : log[i] # <<"cmd", 18>>

C12_Witness ==
    /\ call = "update_and_display_frame"
    /\ result = "Ok"
    /\ Len(buffer) >= 1
    /\ log[Len(log) - 1] = <<"cmd", 18>>

\* C13: wake_up emits the initialize stream of new, hardware reset and both busy-waits
\* included, in whatever state it is called; when it has returned success the panel is
\* Active.
C13_WakeUp ==
    call = "wake_up" =>
        /\ IsPrefix(log, InitStream)
        /\ result = "Ok" => (log = InitStream /\ panel = "Active")

\* wake_up called on a Sleeping panel has emitted the whole stream and is about to return
C13_Witness ==
    /\ call = "wake_up"
    /\ panel = "Sleeping"
    /\ result = "running"
    /\ log = InitStream

\* C14: background_color is the colour passed to the most recent set_background_color,
\* or white when there was none, after any sequence of operations, failed ones included.
C14_BackgroundColor ==
    exists => background_color = (IF color_arg = "never" THEN "White" ELSE color_arg)

C14_Witness ==
    /\ exists
    /\ color_arg = "Black"
    /\ background_color = "Black"
    /\ call = "wake_up"
    /\ result = "Err"

\* C15: a command is sent only while BUSY is idle: every step that emits a command starts
\* in a state where the (active-low) BUSY pin is high.
C15_NoCommandWhileBusy ==
    [][ (Len(log') = Len(log) + 1 /\ log'[Len(log')][1] = "cmd") => busy_pin = 1 ]_vars

\* C16: with every interface call returning and the panel releasing BUSY, every call of
\* an operation returns; sleep and update_frame are never held up, whatever BUSY is.
C16_Termination ==
    /\ []((call \in {"sleep", "update_frame"} /\ result = "running") => ENABLED Step)
    /\ (result = "running") ~> (result # "running")

C16_Witness ==
    /\ call = "display_frame"
    /\ result = "running"
    /\ busy_pin = 0
    /\ log = << <<"cmd", 18>> >>

\* the five waveform loads of set_lut, after its busy-wait
LutStream ==
    <<<<"wait", 0>>>>
    \o <<<<"cmd", 32>>>> \o DataBytes(LUT_VCOM_DC)
    \o <<<<"cmd", 33>>>> \o DataBytes(LUT_WW)
    \o <<<<"cmd", 34>>>> \o DataBytes(LUT_BW)
    \o <<<<"cmd", 35>>>> \o DataBytes(LUT_WB)
    \o <<<<"cmd", 36>>>> \o DataBytes(LUT_BB)

\* the eight address bytes of a region of any u32 values
AddressBytes32(r) ==
    << (r[1] \div 256) % 256, (r[1] % 256) - (r[1] % 8),
       (r[2] \div 256) % 256, r[2] % 256,
       (r[3] \div 256) % 256, (r[3] % 256) - (r[3] % 8),
       (r[4] \div 256) % 256, r[4] % 256 >>

\* the stream of operation c with buffer b and region r: a function of the operation and
\* its arguments alone
StreamOf(c, b, r) ==
    CASE c \in {"new", "wake_up"} -> InitStream
      [] c = "sleep" -> << <<"cmd", 80>>, <<"data", 247>>, <<"cmd", 2>>,
                           <<"cmd", 7>>, <<"data", 165>> >>
      [] c = "update_frame" -> <<<<"cmd", 19>>>> \o Complemented(b) \o <<<<"cmd", 17>>>>
      [] c = "update_partial_frame" ->
            <<<<"cmd", 20>>>> \o DataBytes(AddressBytes32(r)) \o <<<<"wait", 0>>>>
            \o Complemented(b) \o <<<<"cmd", 17>>>>
      [] c = "display_frame" -> << <<"cmd", 18>>, <<"wait", 0>> >>
      [] c = "update_and_display_frame" ->
            <<<<"cmd", 19>>>> \o Complemented(b) \o <<<<"cmd", 17>>>>
            \o << <<"cmd", 18>>, <<"wait", 0>> >>
      [] c = "set_lut" -> LutStream
      [] OTHER -> <<>>

\* C17: what an operation emits and returns is fixed by the operation, its arguments and
\* the transmission at which the transport fails, not by the driver's colour or the calls
\* made before: the log is the first pc - 1 events of StreamOf, the call has succeeded
\* exactly when all of them are out, and so two drivers given the same call emit the same.
C17_Stateless ==
    /\ result \in {"running", "Err"} =>
          (pc <= Len(StreamOf(call, buffer, region)) + 1
           /\ log = SubSeq(StreamOf(call, buffer, region), 1, pc - 1))
    /\ (result = "Ok" /\ call # "set_background_color") =>
          log = StreamOf(call, buffer, region)
    /\ result = "Err" => StreamOf(call, buffer, region)[pc][1] \in {"cmd", "data"}

\* a driver that was given a colour and put to sleep refreshes as a new one does
C17_Witness ==
    /\ call = "display_frame"
    /\ result = "Ok"
    /\ panel = "Sleeping"
    /\ color = "Black"
    /\ log = << <<"cmd", 18>>, <<"wait", 0>> >>

\* C18: set_lut busy-waits first and then loads the tables for 0x20, 0x21, 0x22, 0x23,
\* 0x24 in that order with no busy-wait between them, whatever the refresh-rate selector.
C18_SetLut ==
    call = "set_lut" =>
        /\ IsPrefix(log, LutStream)
        /\ result = "Ok" => log = LutStream
        /\ \A i \in 2..Len(log) : log[i][1] # "wait"

C18_Witness ==
    call = "set_lut" /\ result = "Ok" /\ refresh_rate = "Quick" /\ log = LutStream

\* C19: no step of a running operation, its return included, changes the caller's buffer.
C19_BufferUntouched ==
    [][ result = "running" => buffer' = buffer ]_vars

\* the region bytes went out complemented and the buffer still holds them as passed
C19_Witness ==
    /\ call = "update_partial_frame"
    /\ result = "Ok"
    /\ buffer = <<0, 165>>
    /\ log[11] = <<"data", 255>>
    /\ log[12] = <<"data", 90>>

\* C20: clear_frame sends nothing, does not busy-wait and panics instead of returning.
C20_ClearFrame ==
    call = "clear_frame" => (result = "Panic" /\ log = <<>>)

C20_Witness ==
    call = "clear_frame" /\ result = "Panic" /\ exists /\ log = <<>>

====
